---- MODULE Spec2Model ----
(***************************************************************************)
(* A model of claude-session-picker.py: the transcript parser, the excerpt *)
(* selector, the summarizer adapter, the per-project summary cache and the *)
(* navigation loop of main().                                              *)
(*                                                                         *)
(* Texts are sequences of segments <<tag, n>>: n characters that come from *)
(* the place named by tag.  Lengths, cuts and joins are computed on them   *)
(* as the code computes them on strings.                                   *)
(***************************************************************************)
EXTENDS Integers, Sequences, FiniteSets, TLC

\* ---------------------------------------------------------------- bounds
\* The last modified-time the external writer may give a transcript.
MaxTime == 4
\* The longest comma-separated list typed at the re-cache prompt.
MaxPick == 2
\* The most messages of the user in a transcript taken through the functions.
MaxUsers == 8
\* The most embedded summaries that pass the filter in such a transcript.
MaxSummaries == 4
\* The most segments of a project's path.
MaxDepth == 3
\* The most lines of a transcript whose lines are read one by one.
MaxLines == 3

\* ------------------------------------------------------ program constants
MAX_CONTENT_LENGTH == 20000
SummaryMinLen == 50
SampleAllUpTo == 6
RequestMinLen == 10
RequestCut == 200
ContextEnough == 200
ActionCut == 150
FallbackHead == 5
FallbackCut == 100
SummaryCut == 400
DiagCut == 50

\* ------------------------------------------------------------------ texts
RECURSIVE TextLen(_)
TextLen(t) == IF t = <<>> THEN 0 ELSE Head(t)[2] + TextLen(Tail(t))

\* s[:k]
RECURSIVE Take(_, _)
Take(t, k) ==
    IF t = <<>> \/ k <= 0 THEN <<>>
    ELSE IF Head(t)[2] <= k THEN <<Head(t)>> \o Take(Tail(t), k - Head(t)[2])
    ELSE <<<<Head(t)[1], k>>>>

\* A literal of the program text.
Lit(s) == <<<<s, Len(s)>>>>

\* sep.join(parts)
RECURSIVE Join(_, _)
Join(parts, sep) ==
    IF parts = <<>> THEN <<>>
    ELSE IF Len(parts) = 1 THEN Head(parts)
    ELSE Head(parts) \o sep \o Join(Tail(parts), sep)

Separator == Lit(" | ")
Ellipsis == Lit("...")
Sentinel == Lit("Empty conversation")

\* White space is the text of the segments tagged " ".  s.strip(): the text
\* without the white space it starts and ends with.
RECURSIVE LStrip(_)
LStrip(t) == IF t # <<>> /\ Head(t)[1] = " " THEN LStrip(Tail(t)) ELSE t

RECURSIVE RStrip(_)
RStrip(t) ==
    IF t # <<>> /\ t[Len(t)][1] = " " THEN RStrip(SubSeq(t, 1, Len(t) - 1)) ELSE t

Strip(t) == RStrip(LStrip(t))

\* s[:k] of a sequence
Prefix(s, k) == SubSeq(s, 1, IF k < Len(s) THEN k ELSE Len(s))

RECURSIVE MapSeq(_, _)
MapSeq(Op(_), s) == IF s = <<>> THEN <<>> ELSE <<Op(Head(s))>> \o MapSeq(Op, Tail(s))

\* ------------------------------------------------- transcript records
\* One line of a transcript.  line: "json" a record (a JSON object), "value"
\* JSON that is no object (a number, a string, a list, null), "bad" a line
\* json.loads rejects, "blank" a line that is empty once stripped.  content.k: "str" a
\* string (text = <<>> is the empty string), "list" a list of items, "none" no
\* message.content at all.  toolResult: the stripped string starts with
\* [{"tool_use_id".  marker: the string contains 'This session is being
\* continued from'.  uuid: the first UUID-shaped substring of the string, or
\* "" when it has none.  summary: the record's summary string (<<>> none).
NoContent ==
    [k |-> "none", text |-> <<>>, toolResult |-> FALSE, marker |-> FALSE,
     uuid |-> "", items |-> <<>>]

StrContent(text, toolResult, marker, uuid) ==
    [k |-> "str", text |-> text, toolResult |-> toolResult, marker |-> marker,
     uuid |-> uuid, items |-> <<>>]

ListContent(items) ==
    [k |-> "list", text |-> <<>>, toolResult |-> FALSE, marker |-> FALSE,
     uuid |-> "", items |-> items]

NoSummary == [text |-> <<>>, generic |-> FALSE]

Record(type, isSidechain, content, summary) ==
    [line |-> "json", type |-> type, isSidechain |-> isSidechain,
     content |-> content, summary |-> summary]

BadLine == [Record("other", FALSE, NoContent, NoSummary) EXCEPT !.line = "bad"]
BlankLine == [Record("other", FALSE, NoContent, NoSummary) EXCEPT !.line = "blank"]
ValueLine == [Record("other", FALSE, NoContent, NoSummary) EXCEPT !.line = "value"]

\* conv.get('message', {}).get('content', '') is a string
ContentIsStr(conv) == conv.content.k \in {"str", "none"}

\* that string (the default '' when there is no content)
ContentText(conv) == IF conv.content.k = "str" THEN conv.content.text ELSE <<>>

\* ------------------------------------------------------------ the parser
\* SessionFile.load_conversations, the read loop: the records of the lines
\* that parse, in file order; an unreadable file yields none.
ParseLines(readable, lines) ==
    IF readable THEN SelectSeq(lines, LAMBDA l : l.line \in {"json", "value"}) ELSE <<>>

\* conv.get(...) raises AttributeError on a value that is no dict
AllObjects(convs) == \A i \in DOMAIN convs : convs[i].line = "json"

IsPrimaryUser_with_sidechains(conv) ==
    /\ conv.type = "user"
    /\ ContentIsStr(conv)
    /\ ~conv.content.toolResult

\* the records counted as the user's own messages
IsPrimaryUser(conv) ==
    /\ conv.type = "user"
    /\ ~conv.isSidechain
    /\ ContentIsStr(conv)
    /\ ~conv.content.toolResult

MessageCount(convs) == Len(SelectSeq(convs, IsPrimaryUser))

HasSidechain(convs) == \E i \in 1..Len(convs) : convs[i].isSidechain

IsMarkerRecord(conv) ==
    conv.type = "user" /\ conv.content.k = "str" /\ conv.content.marker

\* The continuation flag and the session continued from, starting from the
\* values the session object holds (prevCont, prevFrom): the flag is only ever
\* set, and the marker records are read only while it is still unset.
ContinuationAfter(prevCont, prevFrom, convs) ==
    IF HasSidechain(convs) \/ prevCont
    THEN [is_continuation |-> TRUE, continued_from_session |-> prevFrom]
    ELSE IF \E i \in 1..Len(convs) : IsMarkerRecord(convs[i])
    THEN LET i == CHOOSE j \in 1..Len(convs) :
                      /\ IsMarkerRecord(convs[j])
                      /\ \A h \in 1..(j - 1) : ~IsMarkerRecord(convs[h])
             u == convs[i].content.uuid
         IN  [is_continuation |-> TRUE,
              continued_from_session |-> IF u # "" THEN u ELSE prevFrom]
    ELSE [is_continuation |-> FALSE, continued_from_session |-> prevFrom]

\* ---------------------------------------------------- the excerpt selector
\* An item of an assistant record's content list.  type: "text", "tool_use" or
\* anything else; action: the text holds one of the action words; input: the
\* tool's arguments, a function from argument names to texts, with the length
\* of its printed form.
TextItem(text, action) ==
    [type |-> "text", text |-> text, action |-> action, name |-> "",
     input |-> <<>>, reprLen |-> 0]

ToolItem(name, input, reprLen) ==
    [type |-> "tool_use", text |-> <<>>, action |-> FALSE, name |-> name,
     input |-> input, reprLen |-> reprLen]

\* the chain of per-tool rules; <<>> when none applies
ToolDescription(name, input) ==
    LET has(k) == k \in DOMAIN input
    IN  IF name = "Read" /\ has("file_path") THEN Lit("read: ") \o input["file_path"]
        ELSE IF name \in {"Edit", "MultiEdit"} /\ has("file_path")
            THEN Lit("edited: ") \o input["file_path"]
        ELSE IF name = "Write" /\ has("file_path") THEN Lit("wrote: ") \o input["file_path"]
        ELSE IF name = "Bash" /\ has("command")
            THEN Lit("ran: ") \o Take(input["command"], 70)
        ELSE IF name \in {"LS", "Glob", "Grep"} /\ has("path")
            THEN Lit("searched: ") \o input["path"]
        ELSE IF name = "Grep" /\ has("pattern") THEN Lit("grepped: ") \o input["pattern"]
        ELSE IF name \in {"NotebookRead", "NotebookEdit"} /\ has("notebook_path")
            THEN Lit("notebook: ") \o input["notebook_path"]
        ELSE IF name \in {"TodoRead", "TodoWrite"} THEN Lit("managed todos")
        ELSE IF name \in {"WebFetch", "WebSearch"} /\ has("url")
            THEN Lit("web: ") \o input["url"]
        ELSE IF name = "WebSearch" /\ has("query") THEN Lit("searched: ") \o input["query"]
        ELSE IF has("description") THEN Take(input["description"], 70)
        ELSE IF has("command") THEN Take(input["command"], 70)
        ELSE <<>>

\* one entry of tool_uses
ToolUse(item) ==
    LET d == ToolDescription(item.name, item.input)
    IN  Lit("Tool '") \o Lit(item.name) \o Lit("': ")
          \o (IF d # <<>> THEN d ELSE Take(<<<<"input", item.reprLen>>>>, 70))

\* the embedded summaries that are long and not generic
GoodSummaries(convs) ==
    LET summaries == SelectSeq(convs, LAMBDA c : c.type = "summary" /\ c.summary.text # <<>>)
        good == SelectSeq(summaries,
                    LAMBDA c : TextLen(c.summary.text) > SummaryMinLen /\ ~c.summary.generic)
    IN  MapSeq(LAMBDA c : c.summary.text, good)

PriorityUserMessages_later_middle(user_messages) ==
    LET n == Len(user_messages)
        mid_point == n \div 2
    IN  IF n <= SampleAllUpTo THEN user_messages
        ELSE SubSeq(user_messages, 1, 2)
               \o SubSeq(user_messages, mid_point + 1, mid_point + 2)
               \o SubSeq(user_messages, n - 1, n)

\* first two, two around the middle, last two; all of them up to six
PriorityUserMessages(user_messages) ==
    LET n == Len(user_messages)
        mid_point == n \div 2
    IN  IF n <= SampleAllUpTo THEN user_messages
        ELSE SubSeq(user_messages, 1, 2)
               \o (IF mid_point > 1 THEN SubSeq(user_messages, mid_point, mid_point + 1)
                   ELSE <<>>)
               \o SubSeq(user_messages, n - 1, n)

UserRequests(priority) ==
    LET kept == SelectSeq(priority,
                    LAMBDA c : ContentIsStr(c)
                               /\ TextLen(Strip(ContentText(c))) > RequestMinLen)
    IN  MapSeq(LAMBDA c : Take(Strip(ContentText(c)), RequestCut), kept)

\* the items of the assistant records outside sidechains, in order
RECURSIVE AssistantItems(_)
AssistantItems(convs) ==
    IF convs = <<>> THEN <<>>
    ELSE LET c == Head(convs)
         IN  (IF c.type = "assistant" /\ ~c.isSidechain /\ c.content.k = "list"
              THEN c.content.items ELSE <<>>) \o AssistantItems(Tail(convs))

AssistantActions(convs) ==
    MapSeq(LAMBDA it : Take(it.text, ActionCut),
           SelectSeq(AssistantItems(convs), LAMBDA it : it.type = "text" /\ it.action))

ToolUses(convs) ==
    MapSeq(ToolUse,
           SelectSeq(AssistantItems(convs),
               LAMBDA it : it.type = "tool_use" /\ it.name # "" /\ DOMAIN it.input # {}))

\* the fallback over the first five records
FallbackParts(convs) ==
    MapSeq(LAMBDA c : Lit("User: ") \o Take(ContentText(c), FallbackCut),
           SelectSeq(Prefix(convs, FallbackHead),
               LAMBDA c : IsPrimaryUser(c) /\ Strip(ContentText(c)) # <<>>))

\* lines 252-259: the parts of the heuristic, at most 3 + 2 + 2 of them
SmartParts(user_requests, convs) ==
    MapSeq(LAMBDA r : Lit("User: ") \o r, Prefix(user_requests, 3))
      \o MapSeq(LAMBDA a : Lit("Action: ") \o a, Prefix(AssistantActions(convs), 2))
      \o MapSeq(LAMBDA t : Lit("Tool: ") \o t, Prefix(ToolUses(convs), 2))

Bounded_no_sentinel(result) ==
    IF TextLen(result) > MAX_CONTENT_LENGTH
    THEN Take(result, MAX_CONTENT_LENGTH) \o Ellipsis
    ELSE result

\* lines 271-275: the cut to MAX_CONTENT_LENGTH and the sentinel
Bounded(result) ==
    IF TextLen(result) > MAX_CONTENT_LENGTH
    THEN Take(result, MAX_CONTENT_LENGTH) \o Ellipsis
    ELSE IF result # <<>> THEN result
    ELSE Sentinel

\* lines 261-275
Combined(smart, convs) ==
    Bounded(Join(IF smart # <<>> THEN smart ELSE FallbackParts(convs), Separator))

\* lines 188-275
Heuristic(user_requests, user_context, convs) ==
    IF TextLen(user_context) > ContextEnough THEN user_context
    ELSE Combined(SmartParts(user_requests, convs), convs)

Selected_all_summaries(good, user_requests, convs) ==
    IF good # <<>> THEN Join(good, Separator)
    ELSE Heuristic(user_requests, Join(user_requests, Separator), convs)

\* lines 145-275
Selected(good, user_requests, convs) ==
    IF good # <<>> THEN Join(Prefix(good, 3), Separator)
    ELSE Heuristic(user_requests, Join(user_requests, Separator), convs)

\* SessionFile.extract_content_for_summary
extract_content_for_summary(convs) ==
    Selected(GoodSummaries(convs),
             UserRequests(PriorityUserMessages(SelectSeq(convs, IsPrimaryUser))),
             convs)

\* -------------------------------------------------- the summarizer adapter
\* What the external process does with one invocation: "ok" exit status 0 and
\* some text, "empty" exit status 0 and nothing left once cleaned, "nonzero" a
\* non-zero exit status, "timeout", "notfound" no such program, "error" any
\* other exception.
SummarizerOutcomes == {"ok", "empty", "nonzero", "timeout", "notfound", "error"}

\* the cleaned text of the process's answer to an excerpt
Reply(content) == <<<<"reply to " \o ToString(content), 60>>>>
Diagnostic == <<<<"stderr", 80>>>>
ExceptionText == <<<<"exception", 80>>>>

\* the excerpt is sent to the external process
InvokesProcess(content) == content # <<>> /\ Strip(content) # Sentinel

\* summarize_with_claude
summarize_with_claude(content, outcome) ==
    IF ~InvokesProcess(content) THEN Lit("Empty or unreadable conversation")
    ELSE IF outcome = "ok" THEN Take(Reply(content), SummaryCut)
    ELSE IF outcome = "empty" THEN Lit("Unable to generate summary (empty response)")
    ELSE IF outcome = "nonzero" THEN Lit("CLI error: ") \o Take(Diagnostic, DiagCut)
    ELSE IF outcome = "timeout" THEN Lit("Summary generation timed out")
    ELSE IF outcome = "notfound" THEN Lit("Claude CLI not found - install claude-cli")
    ELSE Lit("Error: ") \o Take(ExceptionText, DiagCut)

\* ----------------------------------------------------------------- the cache
\* The projects, their transcripts and the project each transcript lies in.
Projects == {"A", "B"}
Files == {"a1", "a2", "a3", "b1"}
ProjectOf(f) == IF f = "b1" THEN "B" ELSE "A"

\* a dict with no key
EmptyMap == <<>>

\* d.get(key, default)
Get(d, key, default) == IF key \in DOMAIN d THEN d[key] ELSE default

\* d with d[key] = value
Put(d, key, value) == [k \in DOMAIN d \cup {key} |-> IF k = key THEN value ELSE d[k]]

\* d after del d[key]
Del(d, key) == [k \in DOMAIN d \ {key} |-> d[k]]

\* get_cached_summary without the comparison of modified times: an entry under
\* the key is returned whatever its fingerprint (C1 tells the two apart).
get_cached_summary_any_time(session, cache_) ==
    LET file_key == session.file_path
    IN  IF file_key \in DOMAIN cache_
        THEN [some |-> TRUE,
              summary |-> Get(cache_[file_key], "summary", <<>>),
              session |->
                  [session EXCEPT
                      !.message_count = Get(cache_[file_key], "message_count", 0),
                      !.is_continuation = Get(cache_[file_key], "is_continuation", FALSE),
                      !.continued_from_session =
                          Get(cache_[file_key], "continued_from_session", "")]]
        ELSE [some |-> FALSE, summary |-> <<>>, session |-> session]

\* get_cached_summary: the value returned (some = FALSE is None) and the
\* session object, its counters restored when the fingerprint matches.
get_cached_summary(session, cache_) ==
    LET file_key == session.file_path
        miss == [some |-> FALSE, summary |-> <<>>, session |-> session]
    IN  IF file_key \in DOMAIN cache_
        THEN LET cached_data == cache_[file_key]
             IN  IF Get(cached_data, "modified_time", -1) = session.modified_time
                 THEN [some |-> TRUE,
                       summary |-> Get(cached_data, "summary", <<>>),
                       session |->
                           [session EXCEPT
                               !.message_count = Get(cached_data, "message_count", 0),
                               !.is_continuation = Get(cached_data, "is_continuation", FALSE),
                               !.continued_from_session =
                                   Get(cached_data, "continued_from_session", "")]]
                 ELSE miss
        ELSE miss

\* cache_summary that leaves the fingerprint of an entry it overwrites as it
\* was (C2 tells the two apart).
cache_summary_same_time(session, summary, cache_) ==
    Put(cache_, session.file_path,
        [summary |-> summary,
         modified_time |-> IF session.file_path \in DOMAIN cache_
                           THEN cache_[session.file_path].modified_time
                           ELSE session.modified_time,
         session_id |-> session.file_path,
         project_dir |-> ProjectOf(session.file_path),
         message_count |-> session.message_count,
         is_continuation |-> session.is_continuation,
         continued_from_session |-> session.continued_from_session])

\* cache_summary
cache_summary(session, summary, cache_) ==
    Put(cache_, session.file_path,
        [summary |-> summary,
         modified_time |-> session.modified_time,
         session_id |-> session.file_path,
         project_dir |-> ProjectOf(session.file_path),
         message_count |-> session.message_count,
         is_continuation |-> session.is_continuation,
         continued_from_session |-> session.continued_from_session])

\* load_cache_for_project that never reads the document (C3 tells the two
\* apart).
load_cache_for_project_none(doc) == EmptyMap

\* load_cache_for_project that takes what it finds in a damaged document (C21
\* tells the two apart).
load_cache_for_project_trusting(doc) == doc.map

\* load_cache_for_project: the document's map, {} when there is none or it
\* cannot be read.
load_cache_for_project(doc) == IF doc.state = "ok" THEN doc.map ELSE EmptyMap

\* save_cache_for_project that opens the document for writing and writes
\* nothing (C6 tells the two apart).
save_cache_for_project_truncated(cache_) == [state |-> "corrupt", map |-> EmptyMap]

\* save_cache_for_project: the document rewritten in full
save_cache_for_project(cache_) == [state |-> "ok", map |-> cache_]

\* ------------------------------------------------------- what is typed
\* A choice typed at a prompt, stripped and lower-cased: a word, or (word =
\* "") the numbers of a comma-separated list.  "x" is a word no prompt knows,
\* "1," a list whose last item is empty.  Interrupt is the interrupt signal
\* arriving while input() waits.
Word(w) == [word |-> w, nums |-> <<>>]
Nums(ns) == [word |-> "", nums |-> ns]
Interrupt == Word("^C")
NoInput == Word("-")

\* int(choice) does not raise ValueError
IsInt(choice) == choice.word = "" /\ Len(choice.nums) = 1

\* get_project_selection on one line of input: exit, the number picked, or
\* the prompt again
get_project_selection(choice, n) ==
    IF choice = Interrupt \/ choice.word = "q" THEN [kind |-> "exit", index |-> 0]
    ELSE IF IsInt(choice) /\ 0 <= choice.nums[1] - 1 /\ choice.nums[1] - 1 < n
    THEN [kind |-> "pick", index |-> choice.nums[1]]
    ELSE [kind |-> "again", index |-> 0]

\* get_session_selection where 'p' leaves the program as 'q' does (C7 tells
\* the two apart).
get_session_selection_p_exits(choice, n) ==
    IF choice = Interrupt \/ choice.word \in {"q", "p"} THEN [kind |-> "exit", index |-> 0]
    ELSE IF choice.word = "r" THEN [kind |-> "recache", index |-> 0]
    ELSE IF IsInt(choice) /\ 0 <= choice.nums[1] - 1 /\ choice.nums[1] - 1 < n
    THEN [kind |-> "pick", index |-> choice.nums[1]]
    ELSE [kind |-> "again", index |-> 0]

\* get_session_selection that counts the sessions from the end of the list
\* (C26 tells the two apart).
get_session_selection_from_end(choice, n) ==
    IF choice = Interrupt \/ choice.word = "q" THEN [kind |-> "exit", index |-> 0]
    ELSE IF choice.word = "p" THEN [kind |-> "back", index |-> 0]
    ELSE IF choice.word = "r" THEN [kind |-> "recache", index |-> 0]
    ELSE IF IsInt(choice) /\ 0 <= choice.nums[1] - 1 /\ choice.nums[1] - 1 < n
    THEN [kind |-> "pick", index |-> n + 1 - choice.nums[1]]
    ELSE [kind |-> "again", index |-> 0]

\* get_session_selection on one line of input
get_session_selection(choice, n) ==
    IF choice = Interrupt \/ choice.word = "q" THEN [kind |-> "exit", index |-> 0]
    ELSE IF choice.word = "p" THEN [kind |-> "back", index |-> 0]
    ELSE IF choice.word = "r" THEN [kind |-> "recache", index |-> 0]
    ELSE IF IsInt(choice) /\ 0 <= choice.nums[1] - 1 /\ choice.nums[1] - 1 < n
    THEN [kind |-> "pick", index |-> choice.nums[1]]
    ELSE [kind |-> "again", index |-> 0]

\* recache_sessions where a list of numbers selects every session, as 'all'
\* does (C4 tells the two apart).
recache_selection_all(choice, n) ==
    IF choice = Interrupt THEN [kind |-> "raise", picks |-> <<>>]
    ELSE IF choice.word = "c" THEN [kind |-> "cancel", picks |-> <<>>]
    ELSE IF choice.word = "all" THEN [kind |-> "run", picks |-> [k \in 1..n |-> k]]
    ELSE IF /\ choice.word = ""
            /\ \A k \in 1..Len(choice.nums) :
                  0 <= choice.nums[k] - 1 /\ choice.nums[k] - 1 < n
    THEN [kind |-> "run", picks |-> [k \in 1..n |-> k]]
    ELSE [kind |-> "again", picks |-> <<>>]

\* recache_sessions that leaves out the numbers outside the list and goes on
\* with the others (C24 tells the two apart).
recache_selection_valid_only(choice, n) ==
    IF choice = Interrupt THEN [kind |-> "raise", picks |-> <<>>]
    ELSE IF choice.word = "c" THEN [kind |-> "cancel", picks |-> <<>>]
    ELSE IF choice.word = "all" THEN [kind |-> "run", picks |-> [k \in 1..n |-> k]]
    ELSE IF choice.word = ""
    THEN [kind |-> "run", picks |-> SelectSeq(choice.nums, LAMBDA k : k \in 1..n)]
    ELSE [kind |-> "again", picks |-> <<>>]

\* recache_sessions, lines 628-648, on one line of input: the interrupt is not
\* caught, 'c' cancels, 'all' or a list of numbers of the list selects, and
\* anything else is asked again.  picks: the positions selected, as typed.
recache_selection(choice, n) ==
    IF choice = Interrupt THEN [kind |-> "raise", picks |-> <<>>]
    ELSE IF choice.word = "c" THEN [kind |-> "cancel", picks |-> <<>>]
    ELSE IF choice.word = "all" THEN [kind |-> "run", picks |-> [k \in 1..n |-> k]]
    ELSE IF /\ choice.word = ""
            /\ \A k \in 1..Len(choice.nums) :
                  0 <= choice.nums[k] - 1 /\ choice.nums[k] - 1 < n
    THEN [kind |-> "run", picks |-> choice.nums]
    ELSE [kind |-> "again", picks |-> <<>>]

\* delete_empty_sessions where 'n' is taken for consent (C11 tells the two
\* apart).
delete_confirmation_n_deletes(choice) ==
    IF choice = Interrupt THEN "raise"
    ELSE IF choice.word \in {"y", "yes", "n", "no"} THEN "yes"
    ELSE "again"

\* delete_empty_sessions, lines 683-708, on one line of input
delete_confirmation(choice) ==
    IF choice = Interrupt THEN "raise"
    ELSE IF choice.word \in {"y", "yes"} THEN "yes"
    ELSE IF choice.word \in {"n", "no"} THEN "no"
    ELSE "again"

\* ------------------------------------------------------------- the state
VARIABLES
    files,             \* the transcripts on disk: exists, mtime, readable, lines
    dirs,              \* each project directory's modified time
    docs,              \* each project's cache document on disk
    now,               \* the latest modified time given so far
    pc,                \* where main() is: a prompt, a step between prompts, or ended
    project_dirs,      \* main's list of project directories
    selected_project,  \* main's selected project
    sessions,          \* main's list of SessionFile objects
    cache,             \* main's cache map
    idx,               \* the position of the pass over sessions
    parsed,            \* the transcripts load_conversations read in the last step
    summarized,        \* the transcripts summarize_with_claude was called for in it
    input,             \* the last choice typed at a prompt
    launched,          \* the session handed to the resume process, "" when none
    conversations,     \* one transcript's records, as load_conversations keeps them
    stage,             \* how far that transcript is: given, loaded, selected, summarized
    session_file,      \* the SessionFile object of that transcript
    excerpt,           \* what extract_content_for_summary returned for it
    call,              \* what summarize_with_claude did with the excerpt
    project_path,      \* the path of a project, as the sequence of its pieces
    decoded            \* what decode_project_path returned for its encoded name

vars == <<files, dirs, docs, now, pc, project_dirs, selected_project, sessions,
          cache, idx, parsed, summarized, input, launched, conversations, stage,
          session_file, excerpt, call, project_path, decoded>>

\* one transcript and one path taken through the functions on their own
units == <<conversations, stage, session_file, excerpt, call, project_path, decoded>>

\* main's variables and the disk
nav == <<files, dirs, docs, now, pc, project_dirs, selected_project, sessions,
         cache, idx, parsed, summarized, input, launched>>

disk == <<files, dirs, docs, now>>

\* The records the model's transcripts are made of.
UserMsg == Record("user", FALSE, StrContent(<<<<"request", 40>>>>, FALSE, FALSE, ""), NoSummary)
ToolResultMsg == Record("user", FALSE, StrContent(<<<<"tool result", 40>>>>, TRUE, FALSE, ""), NoSummary)
ContinuedMsg ==
    Record("user", FALSE, StrContent(<<<<"continued", 60>>>>, FALSE, TRUE, "uuid-1"), NoSummary)
SidechainMsg == Record("user", TRUE, StrContent(<<<<"sidechain", 40>>>>, FALSE, FALSE, ""), NoSummary)

\* what the external writer appends
Appended == {UserMsg}

\* the summarizer outcomes drawn in the navigation model: the external process
\* answers, or (for the transcripts of Slow) runs out of time
Outcomes == {"ok", "timeout"}
Slow == {"a1"}
MayEnd(f, outcome) == outcome = "ok" \/ f \in Slow

File(mtime, lines) == [exists |-> TRUE, mtime |-> mtime, readable |-> TRUE, lines |-> lines]

NoDoc == [state |-> "absent", map |-> EmptyMap]

\* SessionFile.__init__
SessionFile(f) ==
    [file_path |-> f, modified_time |-> files[f].mtime, summary |-> <<>>,
     message_count |-> 0, is_continuation |-> FALSE, continued_from_session |-> ""]

NoCall == [returned |-> FALSE, invoked |-> FALSE, outcome |-> "", text |-> <<>>]

\* no transcript and no path is taken through the functions on their own
NoUnit ==
    /\ conversations = <<>>
    /\ stage = "none"
    /\ session_file = [file_path |-> "", modified_time |-> 0, summary |-> <<>>,
                       message_count |-> 0, is_continuation |-> FALSE,
                       continued_from_session |-> ""]
    /\ excerpt = <<>>
    /\ call = NoCall
    /\ project_path = <<>>
    /\ decoded = <<>>

\* The transcripts the program may find when it starts: all of them, or only
\* the empty one of project B.
InitialTranscripts == {Files, {"b1"}}

Init ==
    /\ \E present \in InitialTranscripts :
          files = [f \in Files |->
                     [(CASE f = "a1" -> File(1, <<UserMsg>>)
                         [] f = "a2" -> File(2, <<ToolResultMsg>>)
                         [] f = "a3" -> File(3, <<ContinuedMsg>>)
                         [] OTHER -> File(2, <<>>)) EXCEPT !.exists = f \in present]]
    /\ dirs = [p \in Projects |-> IF p = "A" THEN 3 ELSE 2]
    /\ docs = [p \in Projects |-> NoDoc]
    /\ now = 3
    /\ pc = "FindProjects"
    /\ project_dirs = <<>>
    /\ selected_project = ""
    /\ sessions = <<>>
    /\ cache = EmptyMap
    /\ idx = 0
    /\ parsed = <<>>
    /\ summarized = <<>>
    /\ input = NoInput
    /\ launched = ""
    /\ NoUnit

\* ------------------------------------------------------------ discovery
\* the orders list.sort(key, reverse=True) can leave the members of S in:
\* newest first, members of equal time in the order the directory listed them
NewestFirst(S, time(_)) ==
    {s \in [1..Cardinality(S) -> S] :
        /\ \A a, b \in 1..Cardinality(S) : a # b => s[a] # s[b]
        /\ \A a, b \in 1..Cardinality(S) : a < b => time(s[a]) >= time(s[b])}

\* a listing that also names the transcripts the cache document has entries
\* for (C25 tells the two apart)
Transcripts_with_deleted(p) ==
    {f \in Files : ProjectOf(f) = p /\ (files[f].exists \/ f \in DOMAIN docs[p].map)}

\* the transcripts project_dir.glob("*.jsonl") finds
Transcripts(p) == {f \in Files : ProjectOf(f) = p /\ files[f].exists}

\* find_project_directories: the directories holding a transcript
find_project_directories ==
    NewestFirst({p \in Projects : Transcripts(p) # {}}, LAMBDA p : dirs[p])

\* find_session_files_in_project
find_session_files_in_project(p) ==
    {[k \in DOMAIN order |-> SessionFile(order[k])] :
        order \in NewestFirst(Transcripts(p), LAMBDA f : files[f].mtime)}

\* SessionFile.load_conversations, lines 101-133: the session object after
\* the records were read
Loaded(session, convs, cont) ==
    [session EXCEPT
        !.message_count = MessageCount(convs),
        !.is_continuation = cont.is_continuation,
        !.continued_from_session = cont.continued_from_session]

\* session.summary = summary, then cache_summary: the session object and the
\* cache map afterwards
Stored(session, summary, cache_) ==
    [session |-> [session EXCEPT !.summary = summary],
     cache |-> cache_summary(session, summary, cache_)]

\* what load_conversations reads of a transcript: nothing when open() fails
ReadRecords(f) == ParseLines(files[f].exists /\ files[f].readable, files[f].lines)

\* extract_content_for_summary, summarize_with_claude and cache_summary on a
\* session whose records were just read
Summarized(session, convs, cache_, outcome) ==
    Stored(Loaded(session, convs,
                  ContinuationAfter(session.is_continuation,
                                    session.continued_from_session, convs)),
           summarize_with_claude(extract_content_for_summary(convs), outcome),
           cache_)

\* SessionFile.load_conversations, extract_content_for_summary,
\* summarize_with_claude and cache_summary on one session: the session object
\* and the cache map afterwards.
Regenerate(session, cache_, outcome) ==
    Summarized(session, ReadRecords(session.file_path), cache_, outcome)

\* a pass that takes a stored failure text for no summary and asks the
\* summarizer again (C30 tells the two apart)
IsCached_retries_failures(looked) ==
    /\ looked.some
    /\ looked.summary # <<>>
    /\ looked.summary # Lit("Summary generation timed out")

\* the pass of main treats the lookup's value as a cached summary
IsCached(looked) == looked.some /\ looked.summary # <<>>

\* ------------------------------------------------- main: after the pass
\* the sessions with no message of the user's own
EmptySessions(ss) == SelectSeq(ss, LAMBDA x : x.message_count = 0)

\* display_sessions and the prompt of get_session_selection come next, unless
\* delete_empty_sessions finds sessions to ask about first
AfterPassPc(ss) == IF EmptySessions(ss) # <<>> THEN "Cleanup" ELSE "SelectSession"

Silent == parsed' = <<>> /\ summarized' = <<>>

\* --------------------------------------------------- main: project choice
\* main, lines 897-907: list the projects; return when there is none.
FindProjects ==
    /\ pc = "FindProjects"
    /\ \E pd \in find_project_directories :
          /\ project_dirs' = pd
          /\ pc' = IF pd = <<>> THEN "Returned" ELSE "SelectProject"
    /\ input' = NoInput
    /\ Silent
    /\ UNCHANGED <<disk, selected_project, sessions, cache, idx, launched>>
    /\ UNCHANGED units

\* main, line 908: one line of input at the prompt of get_project_selection
ProjectPrompt(choice) ==
    /\ pc = "SelectProject"
    /\ LET got == get_project_selection(choice, Len(project_dirs))
       IN  /\ pc' = CASE got.kind = "exit" -> "Quit"
                      [] got.kind = "pick" -> "FindSessions"
                      [] OTHER -> "SelectProject"
           /\ selected_project' = IF got.kind = "pick" THEN project_dirs[got.index]
                                  ELSE selected_project
    /\ input' = choice
    /\ Silent
    /\ UNCHANGED <<disk, project_dirs, sessions, cache, idx, launched>>
    /\ UNCHANGED units

\* --------------------------------------------------- main: the pass
\* main, lines 911-923: find the sessions, load the cache.
FindSessions ==
    /\ pc = "FindSessions"
    /\ \E ss \in find_session_files_in_project(selected_project) :
          /\ sessions' = ss
          /\ IF ss = <<>>
             THEN pc' = "FindProjects" /\ UNCHANGED <<cache, idx>>
             ELSE /\ cache' = load_cache_for_project(docs[selected_project])
                  /\ idx' = 1
                  /\ pc' = "Process"
    /\ input' = NoInput
    /\ Silent
    /\ UNCHANGED <<disk, project_dirs, selected_project, launched>>
    /\ UNCHANGED units

\* main, lines 930-942, on one session: the lookup's value decides between
\* the cached summary and a new one.  made: whether a new one was made.
Resolved(looked, cache_, outcome) ==
    IF IsCached(looked)
    THEN [session |-> [looked.session EXCEPT !.summary = looked.summary],
          cache |-> cache_, made |-> FALSE]
    ELSE [made |-> TRUE] @@ Regenerate(looked.session, cache_, outcome)

\* main, lines 926-951, from the session resolved on: the loop goes on, or
\* (after the last session) the cache is saved, and saved again, and the
\* prompt that comes next is reached.
PassStep(r) ==
    /\ sessions' = [sessions EXCEPT ![idx] = r.session]
    /\ cache' = r.cache
    /\ parsed' = IF r.made THEN <<r.session.file_path>> ELSE <<>>
    /\ summarized' = IF r.made THEN <<r.session.file_path>> ELSE <<>>
    /\ IF idx < Len(sessions)
       THEN idx' = idx + 1 /\ pc' = "Process" /\ UNCHANGED docs
       ELSE /\ idx' = idx
            /\ docs' = [docs EXCEPT ![selected_project] = save_cache_for_project(r.cache)]
            /\ pc' = AfterPassPc([sessions EXCEPT ![idx] = r.session])

\* main, lines 926-951: one turn of the loop over sessions.
ProcessSession(outcome) ==
    /\ pc = "Process"
    /\ idx \in 1..Len(sessions)
    /\ MayEnd(sessions[idx].file_path, outcome)
    /\ PassStep(Resolved(get_cached_summary(sessions[idx], cache), cache, outcome))
    /\ UNCHANGED <<files, dirs, now, project_dirs, selected_project, input, launched>>
    /\ UNCHANGED units

\* ------------------------------------------- main: empty-session cleanup
\* The loop of delete_empty_sessions without del cache[file_key] (C5 tells the
\* two apart).
RECURSIVE DeleteEach_keeps_entry(_, _, _)
DeleteEach_keeps_entry(empties, failing, st) ==
    IF empties = <<>> THEN st
    ELSE DeleteEach_keeps_entry(Tail(empties), failing,
            IF st.files[Head(empties).file_path].exists
               /\ Head(empties).file_path \notin failing
            THEN [files |-> [st.files EXCEPT ![Head(empties).file_path].exists = FALSE],
                  dirs |-> [st.dirs EXCEPT ![ProjectOf(Head(empties).file_path)] = now],
                  cache |-> st.cache]
            ELSE st)

\* The loop of delete_empty_sessions over the empty sessions: unlink, then
\* del cache[file_key]; an unlink that raises (the file is gone, or is one of
\* failing) skips both.  The files, directory times and cache map afterwards.
RECURSIVE DeleteEach(_, _, _)
DeleteEach(empties, failing, st) ==
    IF empties = <<>> THEN st
    ELSE LET f == Head(empties).file_path
             ok == st.files[f].exists /\ f \notin failing
         IN  DeleteEach(Tail(empties), failing,
                IF ok
                THEN [files |-> [st.files EXCEPT ![f].exists = FALSE],
                      dirs |-> [st.dirs EXCEPT ![ProjectOf(f)] = now],
                      cache |-> IF f \in DOMAIN st.cache THEN Del(st.cache, f) ELSE st.cache]
                ELSE st)

\* the list delete_empty_sessions returns after deleting
RemainingSessions(ss) == SelectSeq(ss, LAMBDA x : x.message_count > 0)

\* One line of input at the prompt of delete_empty_sessions, then main, lines
\* 950-966: the cache is saved again; no session left leads back to the
\* projects, else the sessions are shown.  input() at line 684 stands in no
\* try block: the interrupt signal leaves main as a KeyboardInterrupt.
CleanupPrompt(choice, failing) ==
    /\ pc = "Cleanup"
    /\ LET answer == delete_confirmation(choice)
           st == IF answer = "yes"
                 THEN DeleteEach(EmptySessions(sessions), failing,
                                 [files |-> files, dirs |-> dirs, cache |-> cache])
                 ELSE [files |-> files, dirs |-> dirs, cache |-> cache]
           ss == IF answer = "yes" THEN RemainingSessions(sessions) ELSE sessions
       IN  /\ files' = st.files
           /\ dirs' = st.dirs
           /\ cache' = st.cache
           /\ sessions' = ss
           /\ docs' = IF answer \in {"yes", "no"}
                      THEN [docs EXCEPT ![selected_project] = save_cache_for_project(st.cache)]
                      ELSE docs
           /\ pc' = CASE answer = "raise" -> "Aborted"
                      [] answer = "again" -> "Cleanup"
                      [] ss = <<>> -> "FindProjects"
                      [] OTHER -> "SelectSession"
    /\ input' = choice
    /\ Silent
    /\ UNCHANGED <<now, project_dirs, selected_project, idx, launched>>
    /\ UNCHANGED units

\* --------------------------------------------------- main: session choice
\* main, lines 966-980: one line of input at the prompt of
\* get_session_selection; a number picked is handed to launch_session.
SessionPrompt(choice) ==
    /\ pc = "SelectSession"
    /\ LET got == get_session_selection(choice, Len(sessions))
       IN  /\ pc' = CASE got.kind = "exit" -> "Quit"
                      [] got.kind = "back" -> "FindProjects"
                      [] got.kind = "recache" -> "Recache"
                      [] got.kind = "pick" -> "Launch"
                      [] OTHER -> "SelectSession"
           /\ launched' = IF got.kind = "pick" THEN sessions[got.index].file_path
                          ELSE launched
    /\ input' = choice
    /\ Silent
    /\ UNCHANGED <<disk, project_dirs, selected_project, sessions, cache, idx>>
    /\ UNCHANGED units

\* main without the return after launch_session: the inner loop goes on (C9
\* tells the two apart).
LaunchEnds_goes_on(outcome) ==
    /\ pc = "Launch"
    /\ outcome \in {"ok", "raises"}
    /\ pc' = "FindSessions"
    /\ input' = NoInput
    /\ Silent
    /\ UNCHANGED <<disk, project_dirs, selected_project, sessions, cache, idx, launched>>
    /\ UNCHANGED units

\* launch_session: the resume process ends, or starting it raises and the
\* error is printed; either way main returns (line 981).
LaunchEnds(outcome) ==
    /\ pc = "Launch"
    /\ outcome \in {"ok", "raises"}
    /\ pc' = "Returned"
    /\ input' = NoInput
    /\ Silent
    /\ UNCHANGED <<disk, project_dirs, selected_project, sessions, cache, idx, launched>>
    /\ UNCHANGED units

\* ------------------------------------------------------- main: re-cache
\* The loop of recache_sessions going through get_cached_summary first, as the
\* pass of main does (C10 tells the two apart).
RECURSIVE RecacheEach_lookup(_, _, _)
RecacheEach_lookup(picks, outs, st) ==
    IF picks = <<>> THEN st
    ELSE RecacheEach_lookup(Tail(picks), Tail(outs),
            IF IsCached(get_cached_summary(st.sessions[Head(picks)], st.cache))
            THEN st
            ELSE LET made == Regenerate(st.sessions[Head(picks)], st.cache, Head(outs))
                 IN  [sessions |-> [st.sessions EXCEPT ![Head(picks)] = made.session],
                      cache |-> made.cache,
                      parsed |-> Append(st.parsed, made.session.file_path),
                      summarized |-> Append(st.summarized, made.session.file_path)])

\* The loop of recache_sessions over sessions_to_recache (positions of the
\* session list, in the order typed): each session object is parsed and
\* summarized again and stored.  The session list and cache map afterwards,
\* with the transcripts read and the transcripts summarized, in order.
RECURSIVE RecacheEach(_, _, _)
RecacheEach(picks, outs, st) ==
    IF picks = <<>> THEN st
    ELSE RecacheEach(Tail(picks), Tail(outs),
            LET made == Regenerate(st.sessions[Head(picks)], st.cache, Head(outs))
            IN  [sessions |-> [st.sessions EXCEPT ![Head(picks)] = made.session],
                 cache |-> made.cache,
                 parsed |-> Append(st.parsed, made.session.file_path),
                 summarized |-> Append(st.summarized, made.session.file_path)])

\* recache_sessions, lines 650-665, and main, lines 973-977: the sessions
\* selected are done again and the cache is saved.
RecacheRun(st) ==
    /\ sessions' = st.sessions
    /\ cache' = st.cache
    /\ docs' = [docs EXCEPT ![selected_project] = save_cache_for_project(st.cache)]
    /\ parsed' = st.parsed
    /\ summarized' = st.summarized

\* what the prompt of recache_sessions leads to.  outs: what the external
\* process does at each call of a run.
RecacheStep(got) ==
    /\ IF got.kind = "run"
       THEN \E outs \in [1..Len(got.picks) -> Outcomes] :
               /\ \A k \in DOMAIN outs : MayEnd(sessions[got.picks[k]].file_path, outs[k])
               /\ RecacheRun(RecacheEach(got.picks, outs,
                                      [sessions |-> sessions, cache |-> cache,
                                       parsed |-> <<>>, summarized |-> <<>>]))
       ELSE Silent /\ UNCHANGED <<sessions, cache, docs>>
    /\ pc' = CASE got.kind = "raise" -> "Aborted"
               [] got.kind = "again" -> "Recache"
               [] OTHER -> "FindSessions"

\* One line of input at the prompt of recache_sessions, then main, lines
\* 973-977: the inner loop starts over after a run and after 'c'.  input() at
\* line 629 stands in no try block: the interrupt signal leaves main as a
\* KeyboardInterrupt.
RecachePrompt(choice) ==
    /\ pc = "Recache"
    /\ RecacheStep(recache_selection(choice, Len(sessions)))
    /\ input' = choice
    /\ UNCHANGED <<files, dirs, now, project_dirs, selected_project, idx, launched>>
    /\ UNCHANGED units

\* ------------------------------------------------------- the environment
\* Another program appends a record to a transcript: its modified time moves.
ExternalAppend(f, r) ==
    /\ now < MaxTime
    /\ files[f].exists
    /\ r \in Appended
    /\ now' = now + 1
    /\ files' = [files EXCEPT ![f].lines = Append(@, r), ![f].mtime = now + 1]
    /\ UNCHANGED <<dirs, docs, pc, project_dirs, selected_project, sessions, cache, idx,
                   parsed, summarized, input, launched>>
    /\ UNCHANGED units

\* The program has ended: sys.exit(0), main returned, or an exception left it.
Ended == pc \in {"Quit", "Returned", "Aborted"}

\* The program is started again.
Restart ==
    /\ Ended
    /\ pc' = "FindProjects"
    /\ project_dirs' = <<>>
    /\ selected_project' = ""
    /\ sessions' = <<>>
    /\ cache' = EmptyMap
    /\ idx' = 0
    /\ input' = NoInput
    /\ launched' = ""
    /\ Silent
    /\ UNCHANGED disk
    /\ UNCHANGED units

\* what is typed in the model
\* the lists of up to MaxPick different numbers of the n listed, and a list
\* that names the first twice
PickLists(n) ==
    {<<1, 1>>} \cup
    {q \in UNION {[1..m -> 1..n] : m \in 1..MaxPick} :
        \A a, b \in DOMAIN q : a # b => q[a] # q[b]}
NumberChoices(n) == {Nums(<<k>>) : k \in (-1)..(n + 1)}
ProjectChoices == {Word("q"), Interrupt, Word("x")} \cup NumberChoices(Len(project_dirs))
SessionChoices ==
    {Word("q"), Word("p"), Word("r"), Interrupt, Word("x")} \cup NumberChoices(Len(sessions))
CleanupChoices == {Word("y"), Word("n"), Interrupt, Word("x")}
RecacheChoices ==
    {Word("c"), Word("all"), Interrupt, Word("x"), Word("1,"), Nums(<<0>>),
     Nums(<<1, Len(sessions) + 1>>)}
      \cup {Nums(ns) : ns \in PickLists(Len(sessions))}

Next ==
    \/ FindProjects
    \/ \E c \in ProjectChoices : ProjectPrompt(c)
    \/ FindSessions
    \/ \E o \in Outcomes : ProcessSession(o)
    \/ \E c \in CleanupChoices : CleanupPrompt(c, {})
    \/ \E c \in SessionChoices : SessionPrompt(c)
    \/ \E o \in {"ok", "raises"} : LaunchEnds(o)
    \/ \E c \in RecacheChoices : RecachePrompt(c)
    \/ \E f \in Files : \E r \in Appended : ExternalAppend(f, r)
    \/ Restart

Spec == Init /\ [][Next]_vars

\* ------------------------------------------------------------- faults
\* What else can happen to the disk and to the process.  Each event of the
\* disk takes its own moment, as an append does.
\* the cache document of p is damaged (a write cut short), or can no longer
\* be opened; map keeps what the document held
DamageDoc(p, how) ==
    /\ now < MaxTime
    /\ how \in {"corrupt", "unreadable"}
    /\ docs[p].state = "ok"
    /\ now' = now + 1
    /\ docs' = [docs EXCEPT ![p].state = how]
    /\ UNCHANGED <<files, dirs, pc, project_dirs, selected_project, sessions, cache, idx,
                   parsed, summarized, input, launched>>
    /\ UNCHANGED units

\* the transcript f can no longer be opened for reading
MakeUnreadable(f) ==
    /\ now < MaxTime
    /\ files[f].exists /\ files[f].readable
    /\ now' = now + 1
    /\ files' = [files EXCEPT ![f].readable = FALSE]
    /\ UNCHANGED <<dirs, docs, pc, project_dirs, selected_project, sessions, cache, idx,
                   parsed, summarized, input, launched>>
    /\ UNCHANGED units

\* find_session_files_in_project while the transcript f, which glob() and
\* is_file() have seen, is removed before SessionFile(jsonl_file) reads its
\* stat(): FileNotFoundError leaves main, which has no handler for it.
FindSessionsRace(f) ==
    /\ pc = "FindSessions"
    /\ now < MaxTime
    /\ f \in Transcripts(selected_project)
    /\ now' = now + 1
    /\ files' = [files EXCEPT ![f].exists = FALSE]
    /\ dirs' = [dirs EXCEPT ![selected_project] = now + 1]
    /\ pc' = "Aborted"
    /\ input' = NoInput
    /\ Silent
    /\ UNCHANGED <<docs, project_dirs, selected_project, sessions, cache, idx, launched>>
    /\ UNCHANGED units

\* The process is killed in delete_empty_sessions after 'y', when the first
\* so many files are unlinked and before main saves the cache (line 951).
CleanupCrash(so_many) ==
    /\ pc = "Cleanup"
    /\ so_many \in 1..Len(EmptySessions(sessions))
    /\ LET st == DeleteEach(Prefix(EmptySessions(sessions), so_many), {},
                            [files |-> files, dirs |-> dirs, cache |-> cache])
       IN  /\ files' = st.files
           /\ dirs' = st.dirs
           /\ cache' = st.cache
    /\ pc' = "Aborted"
    /\ input' = Word("y")
    /\ Silent
    /\ UNCHANGED <<docs, now, project_dirs, selected_project, sessions, idx, launched>>
    /\ UNCHANGED units

\* A subagent of the session writing the transcript f appends a sidechain
\* record to it.
SidechainAppend(f) ==
    /\ now < MaxTime
    /\ files[f].exists
    /\ now' = now + 1
    /\ files' = [files EXCEPT ![f].lines = Append(@, SidechainMsg), ![f].mtime = now + 1]
    /\ UNCHANGED <<dirs, docs, pc, project_dirs, selected_project, sessions, cache, idx,
                   parsed, summarized, input, launched>>
    /\ UNCHANGED units

\* the documents and transcripts the events of the disk happen to
Fragile == {"A"}
Locked == {"a1"}
Vanishing == {"a2"}
Growing == {"a2"}
Delegating == {"a3"}
Undeletable == {"a2"}

FaultNext ==
    \/ FindProjects
    \/ \E c \in ProjectChoices : ProjectPrompt(c)
    \/ FindSessions
    \/ \E o \in Outcomes : ProcessSession(o)
    \/ \E c \in CleanupChoices : CleanupPrompt(c, {})
    \/ \E c \in SessionChoices : SessionPrompt(c)
    \/ \E o \in {"ok", "raises"} : LaunchEnds(o)
    \/ \E c \in RecacheChoices : RecachePrompt(c)
    \/ \E f \in Growing : \E r \in Appended : ExternalAppend(f, r)
    \/ Restart
    \/ \E p \in Fragile : \E how \in {"corrupt", "unreadable"} : DamageDoc(p, how)
    \/ \E f \in Locked : MakeUnreadable(f)
    \/ \E f \in Vanishing : FindSessionsRace(f)
    \/ \E k \in 1..Cardinality(Files) : CleanupCrash(k)
    \/ \E f \in Delegating : SidechainAppend(f)
    \/ \E f \in Undeletable : CleanupPrompt(Word("y"), {f})

FaultSpec == Init /\ [][FaultNext]_vars

\* ------------------------------------- one transcript through the functions
\* The records of one transcript go through load_conversations' metadata,
\* extract_content_for_summary and summarize_with_claude, as in main's pass
\* (lines 936-938).  main and the disk take no part.
NavOff ==
    /\ files = [f \in Files |-> [File(0, <<>>) EXCEPT !.exists = FALSE]]
    /\ dirs = [p \in Projects |-> 0]
    /\ docs = [p \in Projects |-> NoDoc]
    /\ now = 0
    /\ pc = "Off"
    /\ project_dirs = <<>>
    /\ selected_project = ""
    /\ sessions = <<>>
    /\ cache = EmptyMap
    /\ idx = 0
    /\ parsed = <<>>
    /\ summarized = <<>>
    /\ input = NoInput
    /\ launched = ""

\* the user's own messages of the transcripts: the i-th of them, too short to
\* be a request, of a usual length, or longer than the cut
Shapes == {"short", "plain", "long"}
ShapeLen(shape) == CASE shape = "short" -> 8 [] shape = "plain" -> 40 [] OTHER -> 250
Request(i, shape) ==
    Record("user", FALSE,
           StrContent(<<<<"request " \o ToString(i), ShapeLen(shape)>>>>, FALSE, FALSE, ""),
           NoSummary)
Requests(n, shape) == [i \in 1..n |-> Request(i, shape)]

\* the other records
SummaryRecord(text, generic) ==
    Record("summary", FALSE, NoContent, [text |-> text, generic |-> generic])
GoodSummary(i) == SummaryRecord(<<<<"summary " \o ToString(i), 80>>>>, FALSE)
GoodRun(k) == [i \in 1..k |-> GoodSummary(i)]
ShortSummary == SummaryRecord(<<<<"short summary", 30>>>>, FALSE)
GenericSummary == SummaryRecord(<<<<"generic summary", 80>>>>, TRUE)
HugeSummary == SummaryRecord(<<<<"huge summary", MAX_CONTENT_LENGTH + 1>>>>, FALSE)
BlankSummary == SummaryRecord(<<<<" ", 60>>>>, FALSE)
PaddedToolResultMsg ==
    Record("user", FALSE,
           StrContent(<<<<" ", 2>>, <<"tool result", 40>>>>, TRUE, FALSE, ""), NoSummary)
ToolResultContinued ==
    Record("user", FALSE,
           StrContent(<<<<"tool result on a continued session", 90>>>>, TRUE, TRUE, "uuid-2"),
           NoSummary)
ContinuedNoId ==
    Record("user", FALSE, StrContent(<<<<"continued", 60>>>>, FALSE, TRUE, ""), NoSummary)
PaddedUserMsg ==
    Record("user", FALSE,
           StrContent(<<<<" ", 3>>, <<"padded request", 40>>, <<" ", 3>>>>, FALSE, FALSE, ""),
           NoSummary)
BlankUserMsg == Record("user", FALSE, StrContent(<<<<" ", 4>>>>, FALSE, FALSE, ""), NoSummary)
BareUserMsg == Record("user", FALSE, NoContent, NoSummary)
ListUserMsg == Record("user", FALSE, ListContent(<<>>), NoSummary)
AssistantAction ==
    Record("assistant", FALSE, ListContent(<<TextItem(<<<<"action", 300>>>>, TRUE)>>), NoSummary)
AssistantTool ==
    Record("assistant", FALSE,
           ListContent(<<ToolItem("Read", [file_path |-> <<<<"path", 25000>>>>], 25020)>>),
           NoSummary)

Specials ==
    {ShortSummary, GenericSummary, HugeSummary, BlankSummary, SidechainMsg, ToolResultMsg,
     PaddedToolResultMsg, ContinuedMsg, ToolResultContinued, ContinuedNoId, PaddedUserMsg,
     BlankUserMsg, BareUserMsg, ListUserMsg, AssistantAction, AssistantTool}

\* The transcripts: up to MaxSummaries good summaries or one of the other
\* records, up to MaxUsers messages of the user, and again one of the other
\* records or none.
Openings ==
    {<<>>} \cup {<<r>> : r \in Specials} \cup {GoodRun(k) : k \in 1..MaxSummaries}
Endings == {<<>>} \cup {<<r>> : r \in Specials}
GivenRecords ==
    {o \o Requests(n, shape) \o e :
        o \in Openings, n \in 0..MaxUsers, shape \in Shapes, e \in Endings}

FunctionInit ==
    /\ NavOff
    /\ conversations \in GivenRecords
    /\ stage = "given"
    /\ session_file = [file_path |-> "given", modified_time |-> 0, summary |-> <<>>,
                       message_count |-> 0, is_continuation |-> FALSE,
                       continued_from_session |-> ""]
    /\ excerpt = <<>>
    /\ call = NoCall
    /\ project_path = <<>>
    /\ decoded = <<>>

\* load_conversations, from self.conversations = conversations on
Load ==
    /\ stage = "given"
    /\ IF AllObjects(conversations)
       THEN /\ session_file' = Loaded(session_file, conversations,
                                     ContinuationAfter(session_file.is_continuation,
                                                       session_file.continued_from_session,
                                                       conversations))
            /\ stage' = "loaded"
       ELSE /\ session_file' = session_file
            /\ stage' = "raised"
    /\ UNCHANGED <<nav, conversations, excerpt, call, project_path, decoded>>

Extract ==
    /\ stage = "loaded"
    /\ excerpt' = extract_content_for_summary(conversations)
    /\ stage' = "selected"
    /\ UNCHANGED <<nav, conversations, session_file, call, project_path, decoded>>

\* subprocess.run raises
Raised(outcome) == outcome \in {"timeout", "notfound", "error"}

Caught_named_only(outcome) == outcome \in {"timeout", "notfound"}

\* the except clauses: TimeoutExpired, FileNotFoundError, Exception
Caught(outcome) == outcome \in {"timeout", "notfound", "error"}

\* session.summary = summarize_with_claude(content)
Summarize(outcome) ==
    /\ stage = "selected"
    /\ LET invoked == InvokesProcess(excerpt)
           returned == ~invoked \/ ~Raised(outcome) \/ Caught(outcome)
           text == IF returned THEN summarize_with_claude(excerpt, outcome) ELSE <<>>
       IN  /\ call' = [returned |-> returned, invoked |-> invoked,
                       outcome |-> IF invoked THEN outcome ELSE "", text |-> text]
           /\ session_file' = IF returned THEN [session_file EXCEPT !.summary = text]
                              ELSE session_file
           /\ stage' = IF returned THEN "summarized" ELSE "raised"
    /\ UNCHANGED <<nav, conversations, excerpt, project_path, decoded>>

FunctionNext ==
    \/ Load
    \/ Extract
    \/ \E o \in SummarizerOutcomes : Summarize(o)

FunctionSpec == FunctionInit /\ [][FunctionNext]_vars

\* ------------------------------------------ one transcript read line by line
\* The lines of the transcript a1 are read and parsed by load_conversations.
GivenLines ==
    UNION {[1..n -> {UserMsg, ToolResultMsg, BadLine, BlankLine, ValueLine}] :
              n \in 0..MaxLines}

ParseInit ==
    /\ \E lines \in GivenLines :
          files = [f \in Files |->
                     IF f = "a1" THEN File(1, lines)
                     ELSE [File(0, <<>>) EXCEPT !.exists = FALSE]]
    /\ dirs = [p \in Projects |-> 0]
    /\ docs = [p \in Projects |-> NoDoc]
    /\ now = 0
    /\ pc = "Off"
    /\ project_dirs = <<>>
    /\ selected_project = ""
    /\ sessions = <<>>
    /\ cache = EmptyMap
    /\ idx = 0
    /\ parsed = <<>>
    /\ summarized = <<>>
    /\ input = NoInput
    /\ launched = ""
    /\ conversations = <<>>
    /\ stage = "written"
    /\ session_file = [file_path |-> "a1", modified_time |-> 1, summary |-> <<>>,
                       message_count |-> 0, is_continuation |-> FALSE,
                       continued_from_session |-> ""]
    /\ excerpt = <<>>
    /\ call = NoCall
    /\ project_path = <<>>
    /\ decoded = <<>>

\* load_conversations, the read loop: self.conversations = conversations
Read ==
    /\ stage = "written"
    /\ conversations' = ReadRecords(session_file.file_path)
    /\ stage' = "given"
    /\ UNCHANGED <<nav, session_file, excerpt, call, project_path, decoded>>

ParseNext ==
    \/ Read
    \/ Load

ParseSpec == ParseInit /\ [][ParseNext]_vars

\* --------------------------------------------------- one path through decode
\* A path or a directory name is the sequence of its pieces: "/", "-" and the
\* segments between them.
\* s.split(sep)
RECURSIVE Split(_, _)
Split(s, sep) ==
    IF \A i \in DOMAIN s : s[i] # sep THEN <<s>>
    ELSE LET i == CHOOSE j \in DOMAIN s : s[j] = sep /\ \A h \in 1..(j - 1) : s[h] # sep
         IN  <<SubSeq(s, 1, i - 1)>> \o Split(SubSeq(s, i + 1, Len(s)), sep)

\* s.startswith(prefix)
StartsWith(s, prefix) == Len(s) >= Len(prefix) /\ SubSeq(s, 1, Len(prefix)) = prefix

decode_project_path(encoded_name) ==
    IF StartsWith(encoded_name, <<"-", "Users", "-">>)
    THEN LET parts == Split(encoded_name, "-")
         IN  <<"/">> \o Join(IF Head(parts) = <<>> THEN Tail(parts) ELSE parts, <<"/">>)
    ELSE encoded_name

\* the name the project directory of a path is given: "-" for every "/"
encode(path) == [i \in DOMAIN path |-> IF path[i] = "/" THEN "-" ELSE path[i]]

\* the absolute paths of up to MaxDepth segments
Segments == {"Users", "home", "al", "proj"}
AbsolutePath(segments) == Join([i \in DOMAIN segments |-> <<"/", segments[i]>>], <<>>)
Paths == {AbsolutePath(g) : g \in UNION {[1..d -> Segments] : d \in 1..MaxDepth}}

PathInit ==
    /\ NavOff
    /\ conversations = <<>>
    /\ stage = "named"
    /\ session_file = [file_path |-> "", modified_time |-> 0, summary |-> <<>>,
                       message_count |-> 0, is_continuation |-> FALSE,
                       continued_from_session |-> ""]
    /\ excerpt = <<>>
    /\ call = NoCall
    /\ project_path \in Paths
    /\ decoded = <<>>

\* display_name = decode_project_path(project_dir.name)
Decode ==
    /\ stage = "named"
    /\ decoded' = decode_project_path(encode(project_path))
    /\ stage' = "decoded"
    /\ UNCHANGED <<nav, conversations, session_file, excerpt, call, project_path>>

PathNext == Decode

PathSpec == PathInit /\ [][PathNext]_vars

\* ============================================================ properties
\* A step of the pass of main over the session at idx (an external append
\* moves neither idx nor pc).
PassTurn == pc = "Process" /\ (idx' # idx \/ pc' # "Process")

\* A step of the program: the external writer's steps move the clock.
ProgramStep == now' = now

\* the cache map c holds an entry for session s under the fingerprint s was
\* discovered with
Fresh(s, c) ==
    s.file_path \in DOMAIN c /\ c[s.file_path].modified_time = s.modified_time

\* the members of a sequence
Range(q) == {q[k] : k \in DOMAIN q}

\* no line of transcript f is a record of the user's own
NoOwnMessage(f) ==
    \A k \in DOMAIN files[f].lines :
        LET l == files[f].lines[k]
        IN  ~(/\ l.line = "json"
              /\ l.type = "user"
              /\ ~l.isSidechain
              /\ l.content.k \in {"str", "none"}
              /\ ~l.content.toolResult)

\* ------------------------------------------------------------------ C1
\* C1: in a turn of the pass, the lookup is a hit if and only if the cache map
\* holds an entry under the session's file path whose modified_time equals the
\* modified time the session read from the file; on a hit the session shows
\* the entry's summary, nothing is parsed or summarized and the map is left
\* alone; on a missing key or a differing fingerprint the session is parsed
\* and summarized, and the pass goes on without error.
C1_LookupHitIffFingerprintEqual ==
    [][PassTurn =>
        /\ get_cached_summary(sessions[idx], cache).some <=> Fresh(sessions[idx], cache)
        /\ IF Fresh(sessions[idx], cache)
           THEN /\ parsed' = <<>>
                /\ summarized' = <<>>
                /\ sessions'[idx].summary = cache[sessions[idx].file_path].summary
                /\ cache' = cache
           ELSE /\ get_cached_summary(sessions[idx], cache).summary = <<>>
                /\ parsed' = <<sessions[idx].file_path>>
                /\ summarized' = <<sessions[idx].file_path>>
        /\ pc' \in {"Process", "Cleanup", "SelectSession"}]_vars

\* a turn of the pass has just served session idx - 1 from the cache
C1_HitServed ==
    /\ pc = "Process"
    /\ idx > 1
    /\ parsed = <<>>
    /\ Fresh(sessions[idx - 1], cache)
    /\ sessions[idx - 1].summary = cache[sessions[idx - 1].file_path].summary

\* ------------------------------------------------------------------ C2
\* what is shown at the session prompt is each session's entry under the
\* fingerprint the session was discovered with
ShownFromFreshEntries ==
    pc = "SelectSession" =>
        \A k \in DOMAIN sessions :
            /\ Fresh(sessions[k], cache)
            /\ sessions[k].summary = cache[sessions[k].file_path].summary

\* C2: when the pass meets a session whose entry carries another modified
\* time than the file was discovered with, the transcript is parsed and
\* summarized again and the entry is overwritten: new fingerprint, the count
\* of the records now in the file, and a summary made of them, which is the
\* one the session shows; and no summary is shown at the session prompt but
\* from an entry with the session's fingerprint.
C2_ChangedFileRedone ==
    [][/\ (/\ PassTurn
           /\ sessions[idx].file_path \in DOMAIN cache
           /\ cache[sessions[idx].file_path].modified_time # sessions[idx].modified_time)
          => /\ parsed' = <<sessions[idx].file_path>>
             /\ summarized' = <<sessions[idx].file_path>>
             /\ cache'[sessions[idx].file_path].modified_time = sessions[idx].modified_time
             /\ cache'[sessions[idx].file_path].message_count
                  = MessageCount(ReadRecords(sessions[idx].file_path))
             /\ cache'[sessions[idx].file_path].summary = sessions'[idx].summary
             /\ \E o \in Outcomes :
                   sessions'[idx].summary =
                       summarize_with_claude(
                           extract_content_for_summary(ReadRecords(sessions[idx].file_path)), o)
       /\ ShownFromFreshEntries']_vars

\* the pass has just redone a session whose entry in the document carries an
\* older fingerprint
C2_StaleEntryOverwritten ==
    /\ pc = "Process"
    /\ \E f \in Files :
          /\ parsed = <<f>>
          /\ f \in DOMAIN docs[selected_project].map
          /\ f \in DOMAIN cache
          /\ docs[selected_project].map[f].modified_time < cache[f].modified_time
          /\ cache[f].modified_time = files[f].mtime

\* ------------------------------------------------------------------ C3
\* C3: the pass, once over, has saved an entry for every session under the
\* fingerprint it was discovered with; a later turn of a pass over a session
\* whose saved entry carries the modified time the file still has is a hit
\* that shows the saved summary and calls no summarizer; and the summarizer is
\* called only in a turn of the pass that is a miss and in a re-cache run.
C3_UnchangedFileStaysCached ==
    [][/\ (PassTurn /\ pc' # "Process")
          => \A k \in DOMAIN sessions' :
                /\ docs'[selected_project].state = "ok"
                /\ Fresh(sessions'[k], docs'[selected_project].map)
                /\ docs'[selected_project].map[sessions'[k].file_path].summary
                     = sessions'[k].summary
       /\ (/\ PassTurn
           /\ docs[selected_project].state = "ok"
           /\ sessions[idx].file_path \in DOMAIN docs[selected_project].map
           /\ docs[selected_project].map[sessions[idx].file_path].modified_time
                = files[sessions[idx].file_path].mtime)
          => /\ parsed' = <<>>
             /\ summarized' = <<>>
             /\ sessions'[idx].summary
                  = docs[selected_project].map[sessions[idx].file_path].summary
             /\ cache'[sessions[idx].file_path]
                  = docs[selected_project].map[sessions[idx].file_path]
       /\ (ProgramStep /\ summarized' # <<>>)
          => \/ pc = "Recache"
             \/ PassTurn /\ ~Fresh(sessions[idx], cache)]_vars

\* a pass has come to its last session with every session before it served
\* from the document an earlier pass saved
C3_ServedFromDocument ==
    /\ pc = "Process"
    /\ idx = Len(sessions)
    /\ idx > 1
    /\ parsed = <<>>
    /\ \A k \in 1..(idx - 1) :
          /\ Fresh(sessions[k], docs[selected_project].map)
          /\ docs[selected_project].map[sessions[k].file_path].summary = sessions[k].summary
          /\ sessions[k].modified_time = files[sessions[k].file_path].mtime

\* ------------------------------------------------------------------ C4
\* C4: a re-cache run on a list of numbers parses and summarizes the sessions
\* at those positions of the list shown and no other; every other session
\* object, every other entry of the cache map and of the saved document, and
\* the documents of the other projects are as before.
C4_RecacheListTouchesOnlySelected ==
    [][(pc = "Recache" /\ pc' = "FindSessions" /\ input'.word = "") =>
        LET picked == {sessions[input'.nums[k]].file_path : k \in DOMAIN input'.nums}
        IN  /\ Range(parsed') = picked
            /\ Range(summarized') = picked
            /\ \A k \in DOMAIN sessions :
                  sessions[k].file_path \notin picked => sessions'[k] = sessions[k]
            /\ \A f \in (DOMAIN cache) \ picked :
                  /\ f \in DOMAIN cache'
                  /\ cache'[f] = cache[f]
                  /\ f \in DOMAIN docs'[selected_project].map
                  /\ docs'[selected_project].map[f] = docs[selected_project].map[f]
            /\ \A q \in Projects \ {selected_project} : docs'[q] = docs[q]]_vars

\* the list "1,3" was typed for three sessions, and the first and the third
\* were done again
C4_FirstAndThirdRecached ==
    /\ pc = "FindSessions"
    /\ input = Nums(<<1, 3>>)
    /\ Len(sessions) = 3
    /\ parsed = <<sessions[1].file_path, sessions[3].file_path>>
    /\ summarized = parsed
    /\ sessions[2].file_path \in DOMAIN cache

Nav(p) ==
    CASE p \in {"FindProjects", "SelectProject"} -> "SelectProject"
      [] p \in {"FindSessions", "Process", "Cleanup", "SelectSession"} -> "SelectSession"
      [] p = "Recache" -> "Recache"
      [] p = "Launch" -> "Launch"
      [] OTHER -> "Ended"

\* the number typed is one of the n listed
ValidIndex(choice, n) == IsInt(choice) /\ choice.nums[1] \in 1..n

\* the transitions the specification lists (with the end of the program after
\* Launch, the interrupt at the two selection prompts, and a new run)
ListedTransition ==
    \/ pc = "SelectProject" /\ pc' = "FindSessions"
          /\ ValidIndex(input', Len(project_dirs))
    \/ pc = "SelectSession" /\ pc' = "Launch" /\ ValidIndex(input', Len(sessions))
    \/ pc = "SelectSession" /\ pc' = "Recache" /\ input' = Word("r")
    \/ pc = "Recache" /\ pc' = "FindSessions" /\ selected_project' = selected_project
    \/ pc = "SelectSession" /\ pc' = "FindProjects" /\ input' = Word("p")
    \/ pc \in {"SelectProject", "SelectSession"} /\ pc' = "Quit"
          /\ input' \in {Word("q"), Interrupt}
    \/ pc = "Launch" /\ pc' = "Returned"
    \/ Ended /\ pc' = "FindProjects"

\* the transitions main makes besides: back to the projects when the project
\* has no transcript or the cleanup leaves none, the end when there is no
\* project, and the interrupt that is not caught
UnlistedTransition ==
    \/ pc = "Cleanup" /\ pc' = "FindProjects" /\ input' = Word("y") /\ sessions' = <<>>
    \/ pc = "FindSessions" /\ pc' = "FindProjects" /\ sessions' = <<>>
    \/ pc = "FindProjects" /\ pc' = "Returned" /\ project_dirs' = <<>>
    \/ pc \in {"Cleanup", "Recache"} /\ pc' = "Aborted" /\ input' = Interrupt

\* C7 as the specification states it: the controller changes state only by a
\* listed transition.
C7_OnlyListedTransitions ==
    [][Nav(pc') # Nav(pc) => ListedTransition]_vars

\* C7: the controller changes state only by a listed transition, or back to
\* SelectProject when the project has no transcript or none is left after the
\* cleanup, or to the end when no project is found, or to the end by an
\* interrupt at the cleanup or re-cache prompt; a re-cache, run or cancelled,
\* that is not interrupted goes back to SelectSession of the same project.
C7_TransitionsOfMain ==
    [][/\ Nav(pc') # Nav(pc) => (ListedTransition \/ UnlistedTransition)
       /\ (pc = "Recache" /\ pc' # "Recache" /\ input' # Interrupt)
          => (Nav(pc') = "SelectSession" /\ selected_project' = selected_project)]_vars

\* the cleanup has left project B without a session and main is back at the
\* projects, though no 'p' was typed
C7_BackWithoutP ==
    /\ pc = "FindProjects"
    /\ input = Word("y")
    /\ sessions = <<>>
    /\ selected_project = "B"

\* ------------------------------------------------------------------ C8
\* C8 as the specification states it: the interrupt signal at any prompt ends
\* the program as the quit token does, by sys.exit(0), and no exception
\* leaves main.
C8_InterruptIsQuit ==
    [][(input' = Interrupt
        /\ pc \in {"SelectProject", "SelectSession", "Recache", "Cleanup"})
       => pc' = "Quit"]_vars

\* ------------------------------------------------------------------ C9
\* C9: from the hand-off to the resume process on, whether it runs or
\* raises, main only returns: no prompt is reached, nothing is parsed or
\* summarized, and the cache map and the cache documents stay as they are.
C9_LaunchIsTerminal ==
    [][pc = "Launch" =>
        /\ pc' \in {"Launch", "Returned"}
        /\ parsed' = <<>>
        /\ summarized' = <<>>
        /\ cache' = cache
        /\ docs' = docs
        /\ launched' = launched]_vars

\* main has returned after handing a session to the resume process
C9_ReturnedAfterLaunch ==
    /\ pc = "Returned"
    /\ launched # ""
    /\ launched \in Files

C11_DecliningKeepsEverything ==
    [][(pc = "Cleanup" /\ input' = Word("n"))
       => /\ files' = files
          /\ dirs' = dirs
          /\ cache' = cache
          /\ docs'[selected_project].map = cache
          /\ \A q \in Projects \ {selected_project} : docs'[q] = docs[q]
          /\ sessions' = sessions
          /\ \E k \in DOMAIN sessions' : sessions'[k].message_count = 0
          /\ pc' = "SelectSession"]_vars

\* 'n' was typed and the session prompt shows project A with its empty
\* session, whose transcript and cache entry are still there
C11_EmptySessionKept ==
    /\ pc = "SelectSession"
    /\ input = Word("n")
    /\ selected_project = "A"
    /\ \E k \in DOMAIN sessions :
          /\ sessions[k].file_path = "a2"
          /\ sessions[k].message_count = 0
    /\ files["a2"].exists
    /\ "a2" \in DOMAIN cache

\* ---------------------------------------------- the functions on their own
\* the transcript taken through the functions has been through load_conversations
UnitLoaded == stage \in {"loaded", "selected", "summarized", "raised"}
UnitSelected == stage \in {"selected", "summarized", "raised"}

\* the positions of the records that satisfy P
Positions(P(_)) == {i \in DOMAIN conversations : P(conversations[i])}

\* the string content itself begins with [{"tool_use_id": it does once
\* stripped, and no white space precedes it
BeginsWithMarker(conv) ==
    /\ conv.content.k = "str"
    /\ conv.content.toolResult
    /\ conv.content.text # <<>>
    /\ Head(conv.content.text)[1] # " "

\* C12, as the code has it: message_count is the number of records of type
\* user, outside sidechains, whose content is a string (no content counts as
\* the empty string) that does not begin with the tool-result marker once the
\* white space around it is stripped; no sidechain record and no record whose
\* content begins with the marker is among the counted.
C12_CountsOwnMessages ==
    UnitLoaded =>
       /\ session_file.message_count =
             Cardinality(Positions(LAMBDA c : /\ c.type = "user"
                                              /\ ~c.isSidechain
                                              /\ c.content.k # "list"
                                              /\ ~c.content.toolResult))
       /\ session_file.message_count <=
             Cardinality(Positions(LAMBDA c : ~c.isSidechain /\ ~BeginsWithMarker(c)))

\* C12 as stated: message_count is the number of records of type user, outside
\* sidechains, whose string content does not begin with the tool-result marker.
C12_CountsTextNotBeginningWithMarker ==
    UnitLoaded =>
       session_file.message_count =
          Cardinality(Positions(LAMBDA c : /\ c.type = "user"
                                           /\ ~c.isSidechain
                                           /\ c.content.k # "list"
                                           /\ ~BeginsWithMarker(c)))

\* a tool result preceded by white space was parsed with two messages of the
\* user, and is not counted
C12_PaddedToolResultNotCounted ==
    /\ stage = "loaded"
    /\ conversations = Requests(2, "plain") \o <<PaddedToolResultMsg>>
    /\ session_file.message_count = 2

\* C13 as stated: after the parse is_continuation holds exactly when some
\* record is a sidechain record or some primary user record's text holds the
\* continuation phrase, and continued_from_session is set only when such a
\* primary user record exists.
C13_ContinuationOfPrimaryRecords ==
    UnitLoaded =>
       LET marked == Positions(LAMBDA c : IsPrimaryUser(c) /\ c.content.marker)
       IN  /\ session_file.is_continuation <=> (HasSidechain(conversations) \/ marked # {})
           /\ session_file.continued_from_session # "" => marked # {}

\* C14 as stated: whichever rule produced it, the text that
\* extract_content_for_summary returns is at most MAX_CONTENT_LENGTH long.
C14_ExcerptWithinMaximum == UnitSelected => TextLen(excerpt) <= MAX_CONTENT_LENGTH

\* a record no rule of the selector takes anything from: not a summary with a
\* text, not a primary user record with a string that is not blank, not an
\* assistant record
YieldsNothing(conv) ==
    /\ ~(conv.type = "summary" /\ conv.summary.text # <<>>)
    /\ ~(IsPrimaryUser(conv) /\ Strip(ContentText(conv)) # <<>>)
    /\ conv.type # "assistant"

\* C15: extract_content_for_summary never returns the empty text, and on a
\* transcript whose records yield nothing to any rule it returns exactly
\* "Empty conversation".
C15_ExcerptNeverEmpty ==
    UnitSelected =>
       /\ TextLen(excerpt) > 0
       /\ (\A i \in DOMAIN conversations : YieldsNothing(conversations[i]))
             => excerpt = Lit("Empty conversation")

\* a transcript of a blank user string and a tool result got the sentinel
C15_SentinelReturned ==
    /\ stage = "selected"
    /\ conversations = <<BlankUserMsg, ToolResultMsg>>
    /\ excerpt = Lit("Empty conversation")

\* the k-th smallest member of a set of positions
Nth(S, k) == CHOOSE i \in S : Cardinality({j \in S : j < i}) = k - 1

\* the positions of the embedded summaries of more than 50 characters that
\* hold no stoplist term
LongSpecificSummaries ==
    Positions(LAMBDA c : /\ c.type = "summary"
                         /\ TextLen(c.summary.text) > SummaryMinLen
                         /\ ~c.summary.generic)

\* C16: when the transcript holds a summary record of more than 50 characters
\* without a stoplist term, the excerpt is the first such summaries, three at
\* most, in transcript order and joined by " | ", and nothing else.
C16_SummariesTakePrecedence ==
    (UnitSelected /\ LongSpecificSummaries # {}) =>
       LET n == Cardinality(LongSpecificSummaries)
           m == IF n < 3 THEN n ELSE 3
       IN  excerpt = Join([k \in 1..m |->
                             conversations[Nth(LongSpecificSummaries, k)].summary.text],
                          Lit(" | "))

\* four such summaries and a message of the user: the first three are returned
C16_FirstThreeOfFour ==
    /\ stage = "selected"
    /\ conversations = GoodRun(4) \o Requests(1, "plain")
    /\ excerpt = <<<<"summary 1", 80>>, <<" | ", 3>>, <<"summary 2", 80>>, <<" | ", 3>>,
                   <<"summary 3", 80>>>>

\* the positions of the primary user records: type user, outside sidechains,
\* string content that is no tool result
OwnMessages ==
    Positions(LAMBDA c : /\ c.type = "user"
                         /\ ~c.isSidechain
                         /\ c.content.k # "list"
                         /\ ~c.content.toolResult)

\* the ranks among n primary user records that are sampled, counted from 1:
\* 0, 1, floor(n/2)-1, floor(n/2), n-2, n-1 counted from 0
SampledRanks(n) ==
    IF n <= 6 THEN [k \in 1..n |-> k]
    ELSE <<1, 2, n \div 2, (n \div 2) + 1, n - 1, n>>

\* the sampled records, and what each of them that is long enough contributes
Sampled ==
    LET ranks == SampledRanks(Cardinality(OwnMessages))
    IN  [k \in DOMAIN ranks |-> conversations[Nth(OwnMessages, ranks[k])]]

Contributions ==
    MapSeq(LAMBDA c : Take(Strip(ContentText(c)), 200),
           SelectSeq(Sampled, LAMBDA c : TextLen(Strip(ContentText(c))) > 10))

\* C17: without a good embedded summary, the sample of the primary user
\* records is all of them up to six, and otherwise the six at the ranks 0, 1,
\* floor(n/2)-1, floor(n/2), n-2, n-1, which are different ranks in rising
\* order; each sampled message contributes no more than its first 200
\* characters, and when the contributions joined exceed 200 characters they
\* are the excerpt.
C17_SampleOfUserMessages ==
    (stage = "selected" /\ LongSpecificSummaries = {}) =>
       LET n == Cardinality(OwnMessages)
           ranks == SampledRanks(n)
       IN  /\ PriorityUserMessages(SelectSeq(conversations, IsPrimaryUser)) = Sampled
           /\ n >= 7 => /\ Len(ranks) = 6
                        /\ \A k \in 1..5 : ranks[k] < ranks[k + 1]
           /\ \A k \in DOMAIN Contributions : TextLen(Contributions[k]) <= 200
           /\ TextLen(Join(Contributions, Lit(" | "))) > 200
                 => excerpt = Join(Contributions, Lit(" | "))

\* eight long messages of the user: the first, second, fourth, fifth, seventh
\* and eighth are in the excerpt, cut to 200 characters each
C17_SixOfEight ==
    /\ stage = "selected"
    /\ conversations = Requests(8, "long")
    /\ excerpt = Join([k \in 1..6 |->
                         <<<<"request " \o ToString(<<1, 2, 4, 5, 7, 8>>[k]), 200>>>>],
                      Lit(" | "))

\* C18: when the external process is not found, runs out of time, exits with
\* a status other than 0 or fails in any other way, summarize_with_claude
\* returns: no exception reaches main, the value is a text that is not empty
\* and starts with the words of that kind of failure, different for each
\* kind, and it becomes the session's summary as any other result.
C18_FailsSoft ==
    (stage \in {"summarized", "raised"} /\ call.invoked
       /\ call.outcome \in {"notfound", "timeout", "nonzero", "error"}) =>
       LET words == CASE call.outcome = "notfound" ->
                            <<"Claude CLI not found - install claude-cli", 41>>
                      [] call.outcome = "timeout" -> <<"Summary generation timed out", 28>>
                      [] call.outcome = "nonzero" -> <<"CLI error: ", 11>>
                      [] OTHER -> <<"Error: ", 7>>
       IN  /\ stage = "summarized"
           /\ call.returned
           /\ TextLen(call.text) > 0
           /\ Head(call.text) = words
           /\ session_file.summary = call.text

\* an excerpt was sent to the process, which failed with some other error
C18_OtherErrorPlaceholder ==
    /\ stage = "summarized" /\ call.invoked /\ call.outcome = "error"
    /\ call.text = <<<<"Error: ", 7>>, <<"exception", 50>>>>

\* C19 as stated: when the excerpt is exactly "Empty conversation", or is
\* empty or white space only, summarize_with_claude returns the fixed
\* placeholder and the external process is not invoked.
C19_BlankExcerptNotSent ==
    (stage = "summarized"
       /\ (excerpt = Lit("Empty conversation") \/ Strip(excerpt) = <<>>)) =>
       /\ ~call.invoked
       /\ call.text = Lit("Empty or unreadable conversation")

\* C20 as stated: decoding the directory name of any absolute path whose
\* segments hold no "-" gives the path back.
C20_DecodeInvertsEncode == stage = "decoded" => decoded = project_path

\* ------------------------------------------------------------- faults
\* the file names of the sessions from position k of the list on
SessionsFrom(k) == {sessions[j].file_path : j \in k..Len(sessions)}

C22_BadLinesAreSkipped ==
    stage \in {"loaded", "raised"} =>
       LET records == SelectSeq(files["a1"].lines, LAMBDA l : l.line = "json")
       IN  /\ stage = "loaded"
           /\ conversations = records
           /\ session_file.message_count =
                 Cardinality({i \in DOMAIN records :
                                 /\ records[i].type = "user"
                                 /\ ~records[i].isSidechain
                                 /\ records[i].content.k # "list"
                                 /\ ~records[i].content.toolResult})

\* C23 as stated: while main is discovering projects or sessions, a
\* directory or transcript that goes missing never lets an exception leave
\* main: discovery ends at a prompt, at project discovery again, in the pass,
\* or with main's return.
C23_DiscoveryNeverCrashes ==
    [][(pc = "FindProjects" \/ pc = "FindSessions") => pc' # "Aborted"]_vars

\* what is typed is no valid choice at the prompt main stands at: text that
\* is no command and no number, a number outside the list shown, at the
\* re-cache prompt a list with such a number or with an empty item, at the
\* cleanup prompt anything but y and n
InvalidChoice(choice) ==
    LET outside(n) == IsInt(choice) /\ choice.nums[1] \notin 1..n
    IN  CASE pc = "SelectProject" -> choice = Word("x") \/ outside(Len(project_dirs))
          [] pc = "SelectSession" -> choice = Word("x") \/ outside(Len(sessions))
          [] pc = "Recache" ->
                \/ choice \in {Word("x"), Word("1,")}
                \/ /\ choice.word = ""
                   /\ \E k \in DOMAIN choice.nums : choice.nums[k] \notin 1..Len(sessions)
          [] pc = "Cleanup" -> choice = Word("x")
          [] OTHER -> FALSE

\* C24: an invalid choice at a prompt ends nothing and changes nothing: the
\* same prompt comes again, and the session list, the cache map, the cache
\* documents, the transcripts and their directories are as before.
C24_InvalidChoiceChangesNothing ==
    [][(ProgramStep /\ InvalidChoice(input')) =>
          /\ pc' = pc
          /\ UNCHANGED <<sessions, cache, docs, files, dirs, launched, selected_project>>]_vars

\* a list with a number outside the list was typed at the re-cache prompt of
\* a project with cached sessions, and the prompt is shown again
C24_BadListAskedAgain ==
    /\ pc = "Recache"
    /\ input = Nums(<<1, Len(sessions) + 1>>)
    /\ cache # <<>>

\* main holds a list of sessions it works on
Live == pc \in {"Process", "Cleanup", "SelectSession", "Recache", "Launch"}

\* the transcripts that are gone while the cache document of their project
\* still holds an entry for them
Dangling == {f \in Files : ~files[f].exists /\ f \in DOMAIN docs[ProjectOf(f)].map}

\* C25: an entry left in the cache document for a transcript that was deleted
\* (the process died between the unlink and the save) does no harm in a later
\* run: the document loads as it is and the pass starts, the list main works
\* on never holds the deleted session, so no lookup is made for it, and it is
\* not launched.
C25_DanglingEntryIsHarmless ==
    [][/\ (/\ pc = "FindSessions" /\ ProgramStep /\ sessions' # <<>>
           /\ docs[selected_project].state = "ok")
          => (cache' = docs[selected_project].map /\ pc' = "Process")
       /\ Live' => \A k \in DOMAIN sessions' : files'[sessions'[k].file_path].exists
       /\ (PassTurn /\ ProgramStep) => sessions[idx].file_path \notin Dangling
       /\ launched' # launched => (launched' = "" \/ files'[launched'].exists)]_vars

\* after the crash the program was started again: the sessions of the project
\* are shown, the map holds the entry of the deleted transcript, the list
\* does not hold the transcript
C25_RunAfterCrash ==
    /\ pc = "SelectSession"
    /\ \E f \in Dangling :
          /\ ProjectOf(f) = selected_project
          /\ f \in DOMAIN cache
          /\ \A k \in DOMAIN sessions : sessions[k].file_path # f

\* C26: the list at the session prompt is newest first; a number k of 1..n
\* typed there hands the k-th session of that list, and no other, to the
\* resume process, and a number outside 1..n launches nothing.
C26_IndexLaunchesThatSession ==
    [][(pc = "SelectSession" /\ ProgramStep /\ IsInt(input')) =>
          LET k == input'.nums[1]
          IN  /\ \A a, b \in DOMAIN sessions :
                    a < b => sessions[a].modified_time >= sessions[b].modified_time
              /\ IF k \in 1..Len(sessions)
                 THEN pc' = "Launch" /\ launched' = sessions[k].file_path
                 ELSE pc' = "SelectSession" /\ launched' = launched]_vars

\* 2 was typed at a list of at least two sessions, and the second is launched
C26_SecondLaunched ==
    /\ pc = "Launch"
    /\ input = Nums(<<2>>)
    /\ Len(sessions) >= 2
    /\ launched = sessions[2].file_path
    /\ launched # sessions[1].file_path

\* the number of primary user records among the lines of f
OwnRecords(f) ==
    Cardinality({i \in DOMAIN files[f].lines :
                    LET l == files[f].lines[i]
                    IN  /\ l.line = "json"
                        /\ l.type = "user"
                        /\ ~l.isSidechain
                        /\ l.content.k # "list"
                        /\ ~l.content.toolResult})

\* C27 as stated: a transcript that delete_empty_sessions deletes holds, at
\* that moment, no primary user record.
C27_OnlyEmptyTranscriptsDeleted ==
    [][\A f \in Files :
          (pc = "Cleanup" /\ ProgramStep /\ files[f].exists /\ ~files'[f].exists)
             => OwnRecords(f) = 0]_vars

\* the summaries the summarizer can return for the records f holds now
CurrentSummaries(f) ==
    {summarize_with_claude(extract_content_for_summary(ReadRecords(f)), o) : o \in Outcomes}

\* entry e of a cache map was computed from the records f holds now
ComputedFromCurrent(f, e) ==
    /\ e.summary \in CurrentSummaries(f)
    /\ e.message_count = MessageCount(ReadRecords(f))
    /\ LET fresh == ContinuationAfter(FALSE, "", ReadRecords(f))
       IN  /\ e.is_continuation = fresh.is_continuation
           /\ e.continued_from_session = fresh.continued_from_session

\* C28 as stated: what a cache hit returns was computed from the content the
\* transcript has at the time of the hit.
C28_HitReturnsCurrentContent ==
    [][(PassTurn /\ ProgramStep /\ parsed' = <<>>) =>
          LET f == sessions[idx].file_path
          IN  /\ sessions'[idx].summary \in CurrentSummaries(f)
              /\ sessions'[idx].message_count = MessageCount(ReadRecords(f))]_vars

\* C28: an entry whose stored modified time is the one the transcript has now
\* was computed from the content the transcript has now, in the cache map of
\* the run and in the cache documents; and what a cache hit returns is the
\* entry stored under the modified time the session was discovered with.  So
\* a later discovery never hits on content older than the file it finds.
C28_EntryOfCurrentTimeIsCurrent ==
    /\ \A f \in Files :
          /\ (Live /\ files[f].exists /\ ProjectOf(f) = selected_project
                /\ f \in DOMAIN cache /\ cache[f].modified_time = files[f].mtime)
                => ComputedFromCurrent(f, cache[f])
          /\ (files[f].exists /\ f \in DOMAIN docs[ProjectOf(f)].map
                /\ docs[ProjectOf(f)].map[f].modified_time = files[f].mtime)
                => ComputedFromCurrent(f, docs[ProjectOf(f)].map[f])
    /\ (pc = "Process" /\ idx \in 1..Len(sessions)
          /\ IsCached(get_cached_summary(sessions[idx], cache)))
          => cache[sessions[idx].file_path].modified_time = sessions[idx].modified_time

\* a transcript was appended to between its discovery and its parsing: the
\* entry just stored counts the appended message under the older time
C28_AppendedBeforeParsing ==
    /\ pc = "Process"
    /\ \E f \in Files :
          /\ parsed = <<f>>
          /\ f \in DOMAIN cache
          /\ cache[f].modified_time < files[f].mtime
          /\ Len(files[f].lines) > 1
          /\ cache[f].message_count = MessageCount(ReadRecords(f))

\* C29 as stated: after a run of recache_sessions, the continuation flag and
\* the session continued from that the cache entry of each session done again
\* holds are those a parse of the transcript's records by a new session
\* object gives.
C29_RecacheReplacesContinuation ==
    [][(pc = "Recache" /\ ProgramStep /\ parsed' # <<>>) =>
          \A k \in 1..Len(parsed') :
             LET f == parsed'[k]
                 fresh == ContinuationAfter(FALSE, "", ReadRecords(f))
             IN  /\ cache'[f].is_continuation = fresh.is_continuation
                 /\ cache'[f].continued_from_session = fresh.continued_from_session]_vars

\* the texts summarize_with_claude returns when the process fails
FailureTexts ==
    {summarize_with_claude(Lit("excerpt"), o) :
        o \in {"empty", "nonzero", "timeout", "notfound", "error"}}

\* C30: in the pass, a failure text the summarizer returned is stored under
\* the session's key with the summary's fingerprint, as any summary is; a
\* session whose entry holds a failure text under the session's modified time
\* is a cache hit (nothing parsed, the process not called, the text shown, the
\* cache as it was); the process is called for a session only when the
\* cache has no entry of its modified time; and a run of recache_sessions
\* calls it for every session selected.
C30_FailureTextIsCached ==
    [][/\ (pc = "Recache" /\ ProgramStep) =>
             LET got == recache_selection(input', Len(sessions))
             IN  got.kind = "run" =>
                    \A k \in DOMAIN got.picks :
                       \E j \in DOMAIN summarized' :
                          summarized'[j] = sessions[got.picks[k]].file_path
       /\ (PassTurn /\ ProgramStep) =>
          LET s == sessions[idx]
              f == s.file_path
          IN  /\ (parsed' = <<f>> /\ sessions'[idx].summary \in FailureTexts)
                    => /\ f \in DOMAIN cache'
                       /\ cache'[f].summary = sessions'[idx].summary
                       /\ cache'[f].modified_time = s.modified_time
                       /\ cache'[f].message_count = sessions'[idx].message_count
              /\ (f \in DOMAIN cache /\ cache[f].summary \in FailureTexts
                    /\ cache[f].modified_time = s.modified_time)
                    => /\ parsed' = <<>>
                       /\ summarized' = <<>>
                       /\ sessions'[idx].summary = cache[f].summary
                       /\ cache' = cache
              /\ summarized' # <<>>
                    => (f \notin DOMAIN cache \/ cache[f].modified_time # s.modified_time)]_vars

\* the turn of the pass just made was a cache hit that served a failure text
C30_FailureTextServed ==
    /\ pc \in {"Process", "Cleanup", "SelectSession"}
    /\ input = NoInput
    /\ parsed = <<>>
    /\ idx \in 1..Len(sessions)
    /\ LET k == IF pc = "Process" THEN idx - 1 ELSE idx
       IN  k >= 1 /\ sessions[k].summary \in FailureTexts

\* C31 as stated: after 'y' at the prompt of delete_empty_sessions, a session
\* of the list that is no longer in the list main goes on with has had its
\* transcript deleted and its cache entry removed.
C31_MissingOnlyIfDeleted ==
    [][(pc = "Cleanup" /\ ProgramStep /\ delete_confirmation(input') = "yes") =>
          \A k \in DOMAIN sessions :
             LET f == sessions[k].file_path
             IN  (\A j \in DOMAIN sessions' : sessions'[j].file_path # f)
                    => (~files'[f].exists /\ f \notin DOMAIN cache')]_vars
====
